---- MODULE Spec2Model ----
(***************************************************************************)
(* Model of django-elfinder: the connector (command dispatch, identifier   *)
(* resolution, create commands), the Directory/File models (hashes, node   *)
(* descriptions, tree flattening) and the model volume driver's resolver.  *)
(*                                                                         *)
(* Python strings are modelled as sequences of one-character strings so    *)
(* that split, int() and '%s' formatting are computed, not assumed.        *)
(* The Directory and File tables are sequences indexed by primary key      *)
(* (auto-increment, no delete command exists).                             *)
(***************************************************************************)
EXTENDS Integers, Sequences, FiniteSets, TLC

VARIABLES
    dirs,         \* Directory table: pk -> [name, parent, collection, tree_id]
    files,        \* File table: pk -> [name, parent, collection, content]
    GET,          \* connector._GET of the last request
    response,     \* connector.httpResponse of the last request
    return_view,  \* connector.return_view of the last request
    called,       \* handler function invoked at connector.py:144 ("" if none)
    log,          \* records handed to logger.exception / logger.error
    escaped,      \* TRUE iff an exception left connector.run
    drv,          \* the ModelVolumeDriver.get_object call in progress
    pc,           \* "idle"; "ran": a connector or a driver's resolver has run
                  \* and not yet returned; "called": so has a method called
                  \* directly (Directory.get_tree, ModelVolumeDriver.rename)
    succeeded,    \* the create requests answered with `added` and no `error`
    tr,           \* the Directory.get_tree call in progress
    rn,           \* the ModelVolumeDriver.rename call in progress
    proc          \* the requests served concurrently: process -> its state

vars == <<dirs, files, GET, response, return_view, called, log, escaped, drv,
          pc, succeeded, tr, rn, proc>>

---------------------------------------------------------------------------
(* Bounds of the model. *)

\* number of nodes the create commands may add to the fixture store
MaxNew == 2

---------------------------------------------------------------------------
(* Python string helpers. *)

Digit == <<"0", "1", "2", "3", "4", "5", "6", "7", "8", "9">>

IsDigit(c) == \E i \in 1..10 : Digit[i] = c

DigitVal(c) == (CHOOSE i \in 1..10 : Digit[i] = c) - 1

\* '%s' % n for an integer n >= 0
RECURSIVE Str(_)
Str(n) == IF n < 10 THEN <<Digit[n + 1]>>
          ELSE Str(n \div 10) \o <<Digit[(n % 10) + 1]>>

RECURSIVE DigitsVal(_)
DigitsVal(s) == IF s = <<>> THEN 0
                ELSE DigitsVal(SubSeq(s, 1, Len(s) - 1)) * 10 + DigitVal(s[Len(s)])

RECURSIVE Strip(_)
Strip(s) == IF s # <<>> /\ s[1] = " " THEN Strip(Tail(s))
            ELSE IF s # <<>> /\ s[Len(s)] = " " THEN Strip(SubSeq(s, 1, Len(s) - 1))
            ELSE s

\* the digits of an int() literal: surrounding blanks and one sign dropped
IntBody(s) == LET t == Strip(s)
              IN IF t # <<>> /\ t[1] \in {"+", "-"} THEN Tail(t) ELSE t

\* int(s) succeeds
IsIntLiteral(s) == IntBody(s) # <<>> /\ \A i \in 1..Len(IntBody(s)) : IsDigit(IntBody(s)[i])

\* int(s), when it succeeds
PyInt(s) == LET t == Strip(s)
            IN IF t[1] = "-" THEN 0 - DigitsVal(IntBody(s)) ELSE DigitsVal(IntBody(s))

\* s[1:]
Rest(s) == IF s = <<>> THEN <<>> ELSE Tail(s)

\* s.split('_'): every separator splits
RECURSIVE Split(_)
Split(s) ==
    IF \A i \in 1..Len(s) : s[i] # "_" THEN <<s>>
    ELSE LET k == CHOOSE i \in 1..Len(s) :
                      s[i] = "_" /\ \A j \in 1..(i - 1) : s[j] # "_"
         IN <<SubSeq(s, 1, k - 1)>> \o Split(SubSeq(s, k + 1, Len(s)))

\* a replace that leaves the string as it is
KeepPlus(s) == s

\* s.replace('+', ' ')
RECURSIVE ReplacePlus(_)
ReplacePlus(s) == IF s = <<>> THEN <<>>
                  ELSE <<IF s[1] = "+" THEN " " ELSE s[1]>> \o ReplacePlus(Tail(s))

---------------------------------------------------------------------------
(* Exceptions and messages.  A message is a format text and its argument,  *)
(* so that every message has the same shape.                               *)

Exc(type, text, arg) == [type |-> type, text |-> text, arg |-> arg]

NoExc == Exc("", "", <<>>)

\* '%s' % e
Message(e) == [text |-> e.text, arg |-> e.arg]

Text(t) == [text |-> t, arg |-> <<>>]

\* a dict with key k set to v
Put(d, k, v) == [x \in (DOMAIN d) \cup {k} |-> IF x = k THEN v ELSE d[x]]

EmptyDict == [x \in {} |-> 0]

---------------------------------------------------------------------------
(* The store.                                                              *)

\* FileCollection table: pk -> root_node (pk of a Directory)
collections == <<[root_node |-> 1], [root_node |-> 2]>>

\* the collection every connector and driver of the model is opened on
OpenCollection == 1

\* FileCollection.get_volume_id / ModelVolumeDriver.get_volume_id
get_volume_id(coll) == <<"f", "c">> \o Str(coll)

\* parent = 0 stands for None
DirRow(name, parent, coll, tree) ==
    [name |-> name, parent |-> parent, collection |-> coll, tree_id |-> tree]

FileRow(name, parent, coll) ==
    [name |-> name, parent |-> parent, collection |-> coll, content |-> <<>>]

\* an object: its model and primary key (0: not saved)
Obj(model, id) == [model |-> model, id |-> id]

---------------------------------------------------------------------------
(* models.py: hashes, node descriptions, tree flattening.                  *)
(* D is the Directory table and F the File table the call reads.           *)

None == <<"N", "o", "n", "e">>

\* '%s' % self.id
IdStr(id) == IF id = 0 THEN None ELSE Str(id)

\* Directory.get_hash
DirHash(row, id) == get_volume_id(row.collection) \o <<"_", "d">> \o IdStr(id)

\* File.get_hash
FileHash(row, id) == get_volume_id(row.collection) \o <<"_", "f">> \o IdStr(id)

\* FileCollectionChildMixin.get_parent_hash
get_parent_hash(D, row) ==
    IF row.parent # 0 THEN DirHash(D[row.parent], row.parent) ELSE <<>>

\* the primary keys 1..n in ascending order
Ids(T) == [i \in 1..Len(T) |-> i]

\* MPTT get_children / the `dirs` and `files` related managers, in pk order
ChildrenOf(T, p) == SelectSeq(Ids(T), LAMBDA i : T[i].parent = p)

\* Directory.get_info
DirInfo(D, row, id) ==
    LET obj == [name   |-> row.name,
                hash   |-> DirHash(row, id),
                phash  |-> get_parent_hash(D, row),
                mime   |-> "directory",
                read   |-> 1,
                write  |-> 1,
                size   |-> 0,
                date   |-> "Today 10:00",
                dirs   |-> IF Len(ChildrenOf(D, id)) = 0 THEN 0 ELSE 1]
    IN IF row.parent = 0
       THEN [k \in (DOMAIN obj) \cup {"volume_id", "locked"} |->
                IF k = "volume_id" THEN get_volume_id(row.collection)
                ELSE IF k = "locked" THEN 1
                ELSE obj[k]]
       ELSE obj

\* File.get_info
FileInfo(D, row, id) ==
    [name  |-> row.name,
     hash  |-> FileHash(row, id),
     phash |-> get_parent_hash(D, row),
     mime  |-> "text/plain",
     size  |-> Len(row.content),
     read  |-> TRUE,
     write |-> TRUE,
     rm    |-> TRUE]

\* object.get_info() of a saved object
get_info(D, F, o) ==
    IF o.model = "Directory" THEN DirInfo(D, D[o.id], o.id)
    ELSE FileInfo(D, F[o.id], o.id)

\* object.get_hash() of a saved object
get_hash(D, F, o) ==
    IF o.model = "Directory" THEN DirHash(D[o.id], o.id) ELSE FileHash(F[o.id], o.id)

\* MPTT get_ancestors(include_self=True): from the root down to the node
RECURSIVE get_ancestors(_, _)
get_ancestors(D, id) ==
    IF D[id].parent = 0 THEN <<id>> ELSE get_ancestors(D, D[id].parent) \o <<id>>

\* MPTT get_siblings(): the other directories with the same parent; for a root
\* node these are the other root nodes
get_siblings(D, id) == SelectSeq(ChildrenOf(D, D[id].parent), LAMBDA i : i # id)

DirInfos(D, ids) == [k \in 1..Len(ids) |-> DirInfo(D, D[ids[k]], ids[k])]

FileInfos(D, F, ids) == [k \in 1..Len(ids) |-> FileInfo(D, F[ids[k]], ids[k])]

\* the first loop of Directory.get_tree over a list of ancestors
RECURSIVE AncestorPart(_, _)
AncestorPart(D, anc) ==
    IF anc = <<>> THEN <<>>
    ELSE <<DirInfo(D, D[anc[1]], anc[1])>>
         \o DirInfos(D, get_siblings(D, anc[1]))
         \o AncestorPart(D, Tail(anc))

\* Directory.get_tree
get_tree(D, F, id, ancestors, siblings, children) ==
    (IF ancestors THEN AncestorPart(D, get_ancestors(D, id)) ELSE <<>>)
    \o (IF siblings /\ D[id].parent # 0 THEN DirInfos(D, get_siblings(D, id)) ELSE <<>>)
    \o (IF children
        THEN DirInfos(D, ChildrenOf(D, id)) \o FileInfos(D, F, ChildrenOf(F, id))
        ELSE <<>>)

---------------------------------------------------------------------------
(* connector.py: identifier resolution.                                    *)

LogRec(fn, e) == [fn |-> fn, exc |-> e]

Resolved(o) == [exc |-> NoExc, obj |-> o, log |-> <<>>]

Failed(e, l) == [exc |-> e, obj |-> Obj("", 0), log |-> l]

\* the unpacking of hash.split('_') into two names fails
UnpackError(parts) ==
    Exc("ValueError",
        IF Len(parts) < 2 THEN "need more than 1 value to unpack"
        ELSE "too many values to unpack", <<>>)

\* the query without its tree_id condition
QueryAnyTree(D, F, model, object_id, tree) ==
    IF model = "File" THEN object_id \in 1..Len(F) ELSE object_id \in 1..Len(D)

\* model.objects.get(pk=object_id, tree_id=...) / (pk=..., parent__tree_id=...)
ConnectorQuery(D, F, model, object_id, tree) ==
    IF model = "File"
    THEN /\ object_id \in 1..Len(F)
         /\ F[object_id].parent # 0
         /\ D[F[object_id].parent].tree_id = tree
    ELSE /\ object_id \in 1..Len(D)
         /\ D[object_id].tree_id = tree

\* the resolver its docstring describes: a target that is not found in the
\* current tree yields the root of the current tree
ResolveOrRoot(D, F, coll, hash) ==
    LET parts == Split(hash)
        target == parts[2]
        root == collections[coll].root_node
        object_id == PyInt(Rest(target))
        model == IF target[1] = "f" THEN "File" ELSE "Directory"
    IN IF Len(parts) # 2 THEN Failed(UnpackError(parts), <<>>)
       ELSE IF target = <<>> THEN Resolved(Obj("Directory", root))
       ELSE IF ~IsIntLiteral(Rest(target))
            THEN Failed(Exc("Exception", "Invalid target hash: %s", target),
                        <<LogRec("_get_object_by_hash",
                                 Exc("", "Invalid target hash: %s", target))>>)
       ELSE IF target[1] \notin {"f", "d"}
            THEN Failed(Exc("Exception", "Invalid target hash", <<>>), <<>>)
       ELSE IF ~ConnectorQuery(D, F, model, object_id, D[root].tree_id)
            THEN Resolved(Obj("Directory", root))
       ELSE Resolved(Obj(model, object_id))

\* connector._get_object_by_hash, for a connector opened on collection coll
_get_object_by_hash(D, F, coll, hash) ==
    LET parts == Split(hash)
        target == parts[2]
        root == collections[coll].root_node
        object_id == PyInt(Rest(target))
        model == IF target[1] = "f" THEN "File" ELSE "Directory"
    IN IF Len(parts) # 2 THEN Failed(UnpackError(parts), <<>>)
       ELSE IF target = <<>> THEN Resolved(Obj("Directory", root))
       ELSE IF ~IsIntLiteral(Rest(target))
            THEN Failed(Exc("Exception", "Invalid target hash: %s", target),
                        <<LogRec("_get_object_by_hash",
                                 Exc("", "Invalid target hash: %s", target))>>)
       ELSE IF target[1] \notin {"f", "d"}
            THEN Failed(Exc("Exception", "Invalid target hash", <<>>), <<>>)
       ELSE IF ~ConnectorQuery(D, F, model, object_id, D[root].tree_id)
            THEN Failed(Exc("InvalidTarget", "Could not open target", <<>>), <<>>)
       ELSE Resolved(Obj(model, object_id))

---------------------------------------------------------------------------
(* connector.py: the command handlers.  A handler maps the connector's     *)
(* state c = [resp, view, D, F, log, exc, called] to its state after the   *)
(* call; c.exc is the exception the call raised (NoExc if it returned).    *)

NoView == [template |-> "", file |-> 0, coll |-> 0]

\* views.read_file, the default read_file_view
read_file(file, coll) == [template |-> "read_file.html", file |-> file, coll |-> coll]

NewConnector(D, F) ==
    [resp |-> EmptyDict, view |-> NoView, D |-> D, F |-> F, log |-> <<>>,
     exc |-> NoExc, called |-> ""]

Raise(c, e) == [c EXCEPT !.exc = e]

SetResp(c, k, v) == [c EXCEPT !.resp = Put(c.resp, k, v)]

Logged(c, l) == [c EXCEPT !.log = c.log \o l]

\* self._GET[key] for a key the request does not carry
KeyError(key) == Exc("KeyError", key, <<>>)

\* self._get_object_by_hash(self._GET['target'])
ResolveTarget(c, G, coll) ==
    IF "target" \in DOMAIN G THEN _get_object_by_hash(c.D, c.F, coll, G["target"])
    ELSE Failed(KeyError("target"), <<>>)

\* object.get_tree(...) on a File: the class has no such method
NoGetTree == Exc("AttributeError", "'File' object has no attribute 'get_tree'", <<>>)

\* connector.__parents
parents(c, G, coll) ==
    LET r == ResolveTarget(c, G, coll)
        c1 == Logged(c, r.log)
    IN IF r.exc # NoExc THEN Raise(c1, r.exc)
       ELSE IF r.obj.model = "File" THEN Raise(c1, NoGetTree)
       ELSE SetResp(c1, "tree", get_tree(c.D, c.F, r.obj.id, TRUE, TRUE, FALSE))

\* connector.__tree
tree(c, G, coll) ==
    LET r == ResolveTarget(c, G, coll)
        c1 == Logged(c, r.log)
    IN IF r.exc # NoExc THEN Raise(c1, r.exc)
       ELSE IF r.obj.model = "File" THEN Raise(c1, NoGetTree)
       ELSE SetResp(c1, "tree", get_tree(c.D, c.F, r.obj.id, FALSE, FALSE, TRUE))

\* connector.__file
file(c, G, coll) ==
    LET r == ResolveTarget(c, G, coll)
        c1 == Logged(c, r.log)
    IN IF r.exc # NoExc THEN Raise(c1, r.exc)
       ELSE IF r.obj.model = "File" THEN [c1 EXCEPT !.view = read_file(r.obj.id, coll)]
       ELSE c1

InitParams == [dotFiles |-> FALSE, uplMaxSize |-> "128M", archives |-> <<>>,
               extract |-> <<>>, url |-> "none"]

\* connector.__open
open(c, G, coll) ==
    LET r == ResolveTarget(c, G, coll)
        c1 == Logged(c, r.log)
        c2 == SetResp(c1, "cwd", get_info(c.D, c.F, r.obj))
        full == "tree" \in DOMAIN G /\ G["tree"] = "1"
        c3 == IF full
              THEN SetResp(c2, "files",
                      Append(get_tree(c.D, c.F, r.obj.id, TRUE, TRUE, TRUE),
                             get_info(c.D, c.F, r.obj)))
              ELSE SetResp(c2, "files", get_tree(c.D, c.F, r.obj.id, FALSE, FALSE, TRUE))
    IN IF r.exc # NoExc THEN Raise(c1, r.exc)
       ELSE IF r.obj.model = "File" THEN Raise(c2, NoGetTree)
       ELSE IF "init" \in DOMAIN G
            THEN SetResp(SetResp(SetResp(c3, "api", "2.0"), "disabled", <<>>),
                         "params", InitParams)
       ELSE c3

---------------------------------------------------------------------------
(* connector.py: the create commands.                                      *)

\* a row with this name and parent exists in table T (unique_together)
Duplicate(T, name, parent) ==
    \E i \in 1..Len(T) : T[i].name = name /\ T[i].parent = parent

\* validate_unique that never finds a duplicate
AlwaysUnique(T, name, parent) == TRUE

\* Model.validate_unique passes: the ('name', 'parent') check of the model's own
\* table; a check with a None value is skipped
validate_unique(T, name, parent) == parent = 0 \/ ~Duplicate(T, name, parent)

\* " ".join(e.messages) of the ValidationError
UniqueMessage(model) ==
    Text(IF model = "Directory"
         THEN "Directory with this Name and Parent already exists."
         ELSE "File with this Name and Parent already exists.")

\* the assignment of a parent that is no Directory instance
CannotAssign(model) ==
    Exc("ValueError",
        IF model = "Directory"
        THEN "Cannot assign: Directory.parent must be a Directory instance."
        ELSE "Cannot assign: File.parent must be a Directory instance.", <<>>)

\* new_obj.save() is refused by the table's unique constraint
SaveFails(T, name, parent) == parent # 0 /\ Duplicate(T, name, parent)

IntegrityError == Exc("IntegrityError", "columns name, parent_id are not unique", <<>>)

\* new_obj.save(): the tables after the insert
Saved(c, model, name, parent, coll) ==
    IF model = "Directory"
    THEN [c EXCEPT !.D = Append(c.D, DirRow(name, parent, coll, c.D[parent].tree_id))]
    ELSE [c EXCEPT !.F = Append(c.F, FileRow(name, parent, coll))]

\* new_obj.get_info() for the object with primary key id (0 if it was not saved)
NewInfo(c, model, name, parent, coll, id) ==
    IF model = "Directory"
    THEN DirInfo(c.D, DirRow(name, parent, coll, c.D[parent].tree_id), id)
    ELSE FileInfo(c.D, FileRow(name, parent, coll), id)

\* connector._create_object
_create_object(c, G, coll, model) ==
    LET r == ResolveTarget(c, G, coll)
        c1 == Logged(c, r.log)
        name == ReplacePlus(G["name"])
        parent == r.obj.id
        T == IF model = "Directory" THEN c.D ELSE c.F
        c2 == Saved(c1, model, name, parent, coll)
        T2 == IF model = "Directory" THEN c2.D ELSE c2.F
    IN IF r.exc # NoExc
       THEN Logged(SetResp(c1, "error", Text("Invalid parent directory")),
                   <<LogRec("_create_object", r.exc)>>)
       ELSE IF "name" \notin DOMAIN G THEN Raise(c1, KeyError("name"))
       ELSE IF r.obj.model # "Directory" THEN Raise(c1, CannotAssign(model))
       ELSE IF ~validate_unique(T, name, parent)
            THEN Logged(SetResp(c1, "error", UniqueMessage(model)),
                        <<LogRec("_create_object",
                                 Exc("ValidationError", UniqueMessage(model).text, <<>>))>>)
       ELSE IF SaveFails(T, name, parent)
            THEN SetResp(Logged(SetResp(c1, "error", Text("Could not create new object")),
                                <<LogRec("_create_object", IntegrityError)>>),
                         "added", <<NewInfo(c1, model, name, parent, coll, 0)>>)
       ELSE SetResp(c2, "added", <<NewInfo(c2, model, name, parent, coll, Len(T2))>>)

\* connector.__mkdir
mkdir(c, G, coll) == _create_object(c, G, coll, "Directory")

\* connector.__mkfile
mkfile(c, G, coll) == _create_object(c, G, coll, "File")

---------------------------------------------------------------------------
(* connector.py: dispatch.                                                 *)

\* connector._commands
_commands ==
    [open    |-> [func |-> "__open",    vars |-> [target |-> TRUE]],
     tree    |-> [func |-> "__tree",    vars |-> [target |-> TRUE]],
     file    |-> [func |-> "__file",    vars |-> [target |-> TRUE]],
     parents |-> [func |-> "__parents", vars |-> [target |-> TRUE]],
     mkdir   |-> [func |-> "__mkdir",   vars |-> [target |-> TRUE, name |-> TRUE]],
     mkfile  |-> [func |-> "__mkfile",  vars |-> [target |-> TRUE, name |-> TRUE]]]

\* connector.httpAllowedParameters
httpAllowedParameters ==
    {"cmd", "target", "targets[]", "current", "tree", "name", "content", "src",
     "dst", "cut", "init", "type", "width", "height", "upload[]"}

\* _check_command_variables that accepts every request
CheckNothing(G, command_variables) == TRUE

\* connector._check_command_variables
_check_command_variables(G, command_variables) ==
    \A field \in DOMAIN command_variables :
        /\ ~(command_variables[field] = TRUE /\ field \notin DOMAIN G)
        /\ ~(command_variables[field] = FALSE /\ field \in DOMAIN G)

\* the methods getattr(self, '_connector' + func_name) finds
Methods == {"__open", "__tree", "__file", "__parents", "__mkdir", "__mkfile"}

\* func()
Call(func_name, c, G, coll) ==
    CASE func_name = "__open"    -> open(c, G, coll)
      [] func_name = "__tree"    -> tree(c, G, coll)
      [] func_name = "__file"    -> file(c, G, coll)
      [] func_name = "__parents" -> parents(c, G, coll)
      [] func_name = "__mkdir"   -> mkdir(c, G, coll)
      [] func_name = "__mkfile"  -> mkfile(c, G, coll)

\* Catch with the except clause left out
CatchNothing(c) == c

\* the except clause of connector._run_command
Catch(c) ==
    IF c.exc = NoExc THEN c
    ELSE Logged([SetResp(c, "error", Message(c.exc)) EXCEPT !.exc = NoExc],
                <<LogRec("_run_command", c.exc)>>)

\* connector._run_command
_run_command(c, G, coll, func_name, command_variables) ==
    IF ~_check_command_variables(G, command_variables)
    THEN SetResp(c, "error", Text("Invalid arguments"))
    ELSE IF func_name \notin Methods
    THEN SetResp(c, "error", Text("Command failed"))
    ELSE Catch(Call(func_name, [c EXCEPT !.called = func_name], G, coll))

\* the copy of the allowed parameters of request.GET to self._GET
AllowedOf(request) ==
    [field \in (DOMAIN request) \cap httpAllowedParameters |-> request[field]]

\* run with the two messages of its else branches exchanged
RunSwapped(D, F, coll, request) ==
    LET G == AllowedOf(request)
        c == NewConnector(D, F)
    IN IF "cmd" \in DOMAIN G
       THEN IF G["cmd"] \in DOMAIN _commands
            THEN _run_command(c, G, coll, _commands[G["cmd"]].func,
                              _commands[G["cmd"]].vars)
            ELSE SetResp(c, "error", Text("No command specified"))
       ELSE SetResp(c, "error", Text("Unknown command"))

\* connector.run, on a connector views.connector_view has just built
run(D, F, coll, request) ==
    LET G == AllowedOf(request)
        c == NewConnector(D, F)
    IN IF "cmd" \in DOMAIN G
       THEN IF G["cmd"] \in DOMAIN _commands
            THEN _run_command(c, G, coll, _commands[G["cmd"]].func,
                              _commands[G["cmd"]].vars)
            ELSE SetResp(c, "error", Text("Unknown command"))
       ELSE SetResp(c, "error", Text("No command specified"))

---------------------------------------------------------------------------
(* volume_drivers/model_driver.py: the driver's resolver.                  *)

\* the root directories of collection coll
RootsOf(D, coll) == {i \in 1..Len(D) : D[i].parent = 0 /\ D[i].collection = coll}

\* model.objects.get(pk=object_id, collection=self.collection.id)
DriverQuery(D, F, model, object_id, coll) ==
    IF model = "File"
    THEN object_id \in 1..Len(F) /\ F[object_id].collection = coll
    ELSE object_id \in 1..Len(D) /\ D[object_id].collection = coll

\* ModelVolumeDriver.get_object, for a driver built on collection coll
get_object(D, F, coll, hash) ==
    LET parts == Split(hash)
        object_hash == parts[2]
        object_id == PyInt(Rest(object_hash))
        model == IF object_hash[1] = "f" THEN "File" ELSE "Directory"
    IN IF hash = <<>>
       THEN IF Cardinality(RootsOf(D, coll)) = 1
            THEN Resolved(Obj("Directory", CHOOSE i \in RootsOf(D, coll) : TRUE))
            ELSE Failed(Exc(IF RootsOf(D, coll) = {} THEN "DoesNotExist"
                            ELSE "MultipleObjectsReturned",
                            "Directory matching query", <<>>), <<>>)
       ELSE IF Len(parts) # 2
            THEN Failed(Exc("Exception", "Invalid target hash: %s", hash), <<>>)
       ELSE IF ~IsIntLiteral(Rest(object_hash))
            THEN Failed(Exc("Exception", "Invalid target hash: %s", object_hash), <<>>)
       ELSE IF object_hash[1] \notin {"f", "d"}
            THEN Failed(Exc("Exception", "Invalid target hash: %s", object_hash), <<>>)
       ELSE IF ~DriverQuery(D, F, model, object_id, coll)
            THEN Failed(Exc("Exception", "Could not open target", <<>>), <<>>)
       ELSE Resolved(Obj(model, object_id))

\* object.save() of an existing row is refused by the table's unique
\* constraint: another row of the table has the name and the (non-null) parent
UpdateFails(T, id, name) ==
    /\ T[id].parent # 0
    /\ \E i \in 1..Len(T) : i # id /\ T[i].name = name /\ T[i].parent = T[id].parent

\* ModelVolumeDriver.rename, for a driver built on collection coll: the
\* exception it raises, the tables after the call and the value it returns
rename(D, F, coll, name, target) ==
    LET r == get_object(D, F, coll, target)
        T == IF r.obj.model = "Directory" THEN D ELSE F
        D2 == IF r.obj.model = "Directory" THEN [D EXCEPT ![r.obj.id].name = name] ELSE D
        F2 == IF r.obj.model = "File" THEN [F EXCEPT ![r.obj.id].name = name] ELSE F
    IN IF r.exc # NoExc
       THEN [exc |-> r.exc, D |-> D, F |-> F, value |-> EmptyDict]
       ELSE IF UpdateFails(T, r.obj.id, name)
       THEN [exc |-> IntegrityError, D |-> D, F |-> F, value |-> EmptyDict]
       ELSE [exc |-> NoExc, D |-> D2, F |-> F2,
             value |-> [added |-> <<get_info(D2, F2, r.obj)>>, removed |-> <<target>>]]

---------------------------------------------------------------------------
(* The store at the start and the inputs of the model.                     *)

\* the name FileCollection.save gives a root node
RootName == <<"t", "e", "s", "t">>

\* Two collections with their root nodes; the second one already holds a
\* directory and a file, so that nodes of another volume exist.
InitDirs == <<DirRow(RootName, 0, 1, 1),
              DirRow(RootName, 0, 2, 2),
              DirRow(<<"x">>, 2, 2, 2)>>

InitFiles == <<FileRow(<<"y">>, 2, 2)>>

V1 == <<"f", "c", "1">>

V2 == <<"f", "c", "2">>

\* target identifiers: well-formed ones of both kinds (nodes of the open volume,
\* nodes of the other volume, missing nodes, a foreign prefix, a leading zero)
\* and malformed ones (no separator, two separators, bad kind, bad number)
Targets ==
    { <<>>,
      V1 \o <<"_">>,
      <<"x">>,
      V1 \o <<"_", "_">>,
      V1 \o <<"_", "d", "1">>,
      V1 \o <<"_", "d", "2">>,
      V1 \o <<"_", "d", "3">>,
      V1 \o <<"_", "d", "4">>,
      V1 \o <<"_", "d", "9">>,
      V1 \o <<"_", "f", "1">>,
      V1 \o <<"_", "f", "2">>,
      V2 \o <<"_", "d", "4">>,
      V1 \o <<"_", "d", "0", "4">>,
      V1 \o <<"_", "x", "1">>,
      V1 \o <<"_", "d", "x">>,
      V1 \o <<"_", "d">> }

\* values of the name parameter
Names == { <<"a", "+", "b">>, <<"a", " ", "b">>, <<>> }

\* new names of a rename call: the name of a node created before, a fresh name
RenameNames == { <<"a", " ", "b">>, <<"c">> }

\* optional parameters of an open request
OpenOptions == { EmptyDict,
                 [tree |-> "1"],
                 [tree |-> "0"],
                 [tree |-> "1", init |-> "1"] }

\* d1 with the entries of d2 added
Merge(d1, d2) ==
    [k \in (DOMAIN d1) \cup (DOMAIN d2) |-> IF k \in DOMAIN d2 THEN d2[k] ELSE d1[k]]

NoResult == [exc |-> NoExc, obj |-> Obj("", 0), log |-> <<>>]

NoCall == [called |-> FALSE, hash |-> <<>>, result |-> NoResult]

\* no Directory.get_tree call is in progress
NoTree == [called |-> FALSE, id |-> 0, ancestors |-> FALSE, siblings |-> FALSE,
           children |-> FALSE, result |-> <<>>]

\* no rename call is in progress
NoRename == [called |-> FALSE, name |-> <<>>, target |-> <<>>, exc |-> NoExc,
             result |-> EmptyDict]

\* the processes that serve requests concurrently
Procs == {1, 2}

\* a process that has not yet received its request: its position in
\* _create_object, its _GET, its response, its log records and the primary key
\* of the parent it resolved
NoRequest == [pc |-> "new", G |-> EmptyDict, resp |-> EmptyDict, log |-> <<>>,
              parent |-> 0]

Init ==
    /\ dirs = InitDirs
    /\ files = InitFiles
    /\ GET = EmptyDict
    /\ response = EmptyDict
    /\ return_view = NoView
    /\ called = ""
    /\ log = <<>>
    /\ escaped = FALSE
    /\ drv = NoCall
    /\ pc = "idle"
    /\ succeeded = {}
    /\ tr = NoTree
    /\ rn = NoRename
    /\ proc = [p \in Procs |-> NoRequest]

\* the request is a create command answered with `added` and no `error`
Created(G, resp) ==
    /\ "cmd" \in DOMAIN G
    /\ G["cmd"] \in {"mkdir", "mkfile"}
    /\ "added" \in DOMAIN resp
    /\ "error" \notin DOMAIN resp

\* the connector's state c after run becomes the state of the model
Ran(c, G) ==
    /\ Len(c.D) + Len(c.F) <= Len(InitDirs) + Len(InitFiles) + MaxNew
    /\ pc' = "ran"
    /\ dirs' = c.D
    /\ files' = c.F
    /\ GET' = G
    /\ response' = c.resp
    /\ return_view' = c.view
    /\ called' = c.called
    /\ log' = c.log
    /\ escaped' = (c.exc # NoExc)
    /\ succeeded' = IF Created(G, c.resp)
                    THEN succeeded \cup {<<G["cmd"], G["target"], G["name"]>>}
                    ELSE succeeded
    /\ UNCHANGED <<drv, tr, rn, proc>>

\* views.connector_view: a connector is built on the collection and runs the
\* request
Served(request) == Ran(run(dirs, files, OpenCollection, request), AllowedOf(request))

Open == \E t \in Targets, o \in OpenOptions :
            /\ pc = "idle"
            /\ Served(Merge([cmd |-> "open", target |-> t], o))

Tree == \E t \in Targets :
            /\ pc = "idle"
            /\ Served([cmd |-> "tree", target |-> t])

Parents == \E t \in Targets :
               /\ pc = "idle"
               /\ Served([cmd |-> "parents", target |-> t])

File == \E t \in Targets :
            /\ pc = "idle"
            /\ Served([cmd |-> "file", target |-> t])

Mkdir == \E t \in Targets, n \in Names :
             /\ pc = "idle"
             /\ Served([cmd |-> "mkdir", target |-> t, name |-> n])

Mkfile == \E t \in Targets, n \in Names :
              /\ pc = "idle"
              /\ Served([cmd |-> "mkfile", target |-> t, name |-> n])

\* requests of a registered command without one of its required parameters
Incomplete(cmd) ==
    {Merge([cmd |-> cmd], o) : o \in {EmptyDict, [name |-> <<"a">>], [tree |-> "1"]}}
    \cup (IF cmd \in {"mkdir", "mkfile"}
          THEN {[cmd |-> cmd, target |-> t] : t \in {V1 \o <<"_">>, <<"x">>}}
          ELSE {})

\* a registered command without one of its required parameters
MissingArgument ==
    \E cmd \in DOMAIN _commands : \E request \in Incomplete(cmd) :
        /\ pc = "idle"
        /\ Served(request)

\* parameters a request may carry beside cmd; callback is not an allowed one
OtherParameters ==
    { EmptyDict,
      [target |-> V1 \o <<"_">>],
      [target |-> V1 \o <<"_">>, name |-> <<"a">>],
      [target |-> <<"x">>, callback |-> "f"] }

\* a command name the registry does not hold
UnknownCommand ==
    \E cmd \in {"invalid_cmd_test", "rename"}, o \in OtherParameters :
        /\ pc = "idle"
        /\ Served(Merge([cmd |-> cmd], o))

\* a request without cmd
NoCommand == \E o \in OtherParameters :
                 /\ pc = "idle"
                 /\ Served(o)

\* a ModelVolumeDriver built on the open collection resolves a hash
DriverGetObject ==
    \E h \in Targets :
        /\ pc = "idle"
        /\ pc' = "ran"
        /\ drv' = [called |-> TRUE, hash |-> h,
                   result |-> get_object(dirs, files, OpenCollection, h)]
        /\ UNCHANGED <<dirs, files, GET, response, return_view, called, log,
                       escaped, succeeded, tr, rn, proc>>

\* Directory.get_tree is called on a directory of the store
GetTree ==
    \E n \in 1..Len(dirs), a \in BOOLEAN, s \in BOOLEAN, ch \in BOOLEAN :
        /\ pc = "idle"
        /\ pc' = "called"
        /\ tr' = [called |-> TRUE, id |-> n, ancestors |-> a, siblings |-> s,
                  children |-> ch, result |-> get_tree(dirs, files, n, a, s, ch)]
        /\ UNCHANGED <<dirs, files, GET, response, return_view, called, log,
                       escaped, drv, succeeded, rn, proc>>

\* ModelVolumeDriver.rename is called on a driver built on the open collection
Rename ==
    \E name \in RenameNames, target \in Targets :
        LET r == rename(dirs, files, OpenCollection, name, target)
        IN /\ pc = "idle"
           /\ pc' = "called"
           /\ dirs' = r.D
           /\ files' = r.F
           /\ rn' = [called |-> TRUE, name |-> name, target |-> target,
                     exc |-> r.exc, result |-> r.value]
           /\ UNCHANGED <<GET, response, return_view, called, log, escaped, drv,
                          succeeded, tr, proc>>

\* the call returns: views.connector_view hands out the response and the
\* connector (the driver call's result) is dropped
Return ==
    /\ pc \in {"ran", "called"}
    /\ pc' = "idle"
    /\ GET' = EmptyDict
    /\ response' = EmptyDict
    /\ return_view' = NoView
    /\ called' = ""
    /\ log' = <<>>
    /\ escaped' = FALSE
    /\ drv' = NoCall
    /\ tr' = NoTree
    /\ rn' = NoRename
    /\ UNCHANGED <<dirs, files, succeeded, proc>>

Next ==
    \/ Open
    \/ Tree
    \/ Parents
    \/ File
    \/ Mkdir
    \/ Mkfile
    \/ MissingArgument
    \/ UnknownCommand
    \/ NoCommand
    \/ DriverGetObject
    \/ GetTree
    \/ Return

Spec == Init /\ [][Next]_vars

---------------------------------------------------------------------------
(* Create requests served concurrently, one connector per request on the   *)
(* open collection.  A request reads and writes the store in three steps   *)
(* of connector._create_object: the resolution of the parent, the          *)
(* uniqueness check and the save.                                          *)

\* targets of the concurrent requests
RaceTargets == { V1 \o <<"_">>, V1 \o <<"_", "d", "1">>, V1 \o <<"_", "d", "4">>,
                 V1 \o <<"_", "f", "1">>, <<"x">> }

\* the model a create command instantiates
ModelOf(cmd) == IF cmd = "mkdir" THEN "Directory" ELSE "File"

\* the table of the model of process p's command
TableOf(p) == IF proc[p].G["cmd"] = "mkdir" THEN dirs ELSE files

\* the query a failed insert leaves the connection unable to run
DatabaseError ==
    Exc("DatabaseError", "current transaction is aborted", <<>>)

ProcessStep(p, st) ==
    /\ proc' = [proc EXCEPT ![p] = st]
    /\ UNCHANGED <<GET, response, return_view, called, log, escaped, drv, pc,
                   succeeded, tr, rn>>

\* a process receives a create request and resolves its parent
Receive ==
    \E p \in Procs, cmd \in {"mkdir", "mkfile"}, t \in RaceTargets, n \in Names :
        LET G == AllowedOf([cmd |-> cmd, target |-> t, name |-> n])
            c == NewConnector(dirs, files)
            r == ResolveTarget(c, G, OpenCollection)
            failed == Logged(SetResp(c, "error", Text("Invalid parent directory")),
                             r.log \o <<LogRec("_create_object", r.exc)>>)
            raised == Catch(Raise(c, CannotAssign(ModelOf(cmd))))
        IN /\ proc[p].pc = "new"
           /\ _check_command_variables(G, _commands[cmd].vars)
           /\ ProcessStep(p,
                 IF r.exc # NoExc
                 THEN [pc |-> "done", G |-> G, resp |-> failed.resp,
                       log |-> failed.log, parent |-> 0]
                 ELSE IF r.obj.model # "Directory"
                 THEN [pc |-> "done", G |-> G, resp |-> raised.resp,
                       log |-> raised.log, parent |-> 0]
                 ELSE [pc |-> "built", G |-> G, resp |-> EmptyDict, log |-> <<>>,
                       parent |-> r.obj.id])
           /\ UNCHANGED <<dirs, files>>

\* new_obj.validate_unique()
Validate ==
    \E p \in Procs :
        LET model == ModelOf(proc[p].G["cmd"])
            name == ReplacePlus(proc[p].G["name"])
        IN /\ proc[p].pc = "built"
           /\ ProcessStep(p,
                 IF validate_unique(TableOf(p), name, proc[p].parent)
                 THEN [proc[p] EXCEPT !.pc = "valid"]
                 ELSE [proc[p] EXCEPT
                          !.pc = "done",
                          !.resp = Put(@, "error", UniqueMessage(model)),
                          !.log = @ \o <<LogRec("_create_object",
                                        Exc("ValidationError",
                                            UniqueMessage(model).text, <<>>))>>])
           /\ UNCHANGED <<dirs, files>>

\* new_obj.save() inserts the row; the description of the row is `added`
Save ==
    \E p \in Procs :
        LET model == ModelOf(proc[p].G["cmd"])
            name == ReplacePlus(proc[p].G["name"])
            c == Saved(NewConnector(dirs, files), model, name, proc[p].parent,
                       OpenCollection)
            id == IF model = "Directory" THEN Len(c.D) ELSE Len(c.F)
        IN /\ proc[p].pc = "valid"
           /\ ~SaveFails(TableOf(p), name, proc[p].parent)
           /\ dirs' = c.D
           /\ files' = c.F
           /\ ProcessStep(p,
                 [proc[p] EXCEPT
                     !.pc = "done",
                     !.resp = Put(@, "added",
                                  <<NewInfo(c, model, name, proc[p].parent,
                                            OpenCollection, id)>>)])

\* new_obj.save() is refused by the unique constraint: the error is set and
\* the description of the unsaved object is `added`
Refused ==
    \E p \in Procs :
        LET model == ModelOf(proc[p].G["cmd"])
            name == ReplacePlus(proc[p].G["name"])
        IN /\ proc[p].pc = "valid"
           /\ SaveFails(TableOf(p), name, proc[p].parent)
           /\ ProcessStep(p,
                 [proc[p] EXCEPT
                     !.pc = "done",
                     !.resp = Put(Put(@, "error", Text("Could not create new object")),
                                  "added",
                                  <<NewInfo(NewConnector(dirs, files), model, name,
                                            proc[p].parent, OpenCollection, 0)>>),
                     !.log = @ \o <<LogRec("_create_object", IntegrityError)>>])
           /\ UNCHANGED <<dirs, files>>

\* new_obj.save() is refused and the database then rejects the query of
\* Directory.get_info (a connection whose transaction the failed insert
\* aborted): the failure leaves the handler and _run_command reports it
Aborted ==
    \E p \in Procs :
        LET name == ReplacePlus(proc[p].G["name"])
        IN /\ proc[p].pc = "valid"
           /\ proc[p].G["cmd"] = "mkdir"
           /\ SaveFails(dirs, name, proc[p].parent)
           /\ ProcessStep(p,
                 [proc[p] EXCEPT
                     !.pc = "done",
                     !.resp = Put(@, "error", Message(DatabaseError)),
                     !.log = @ \o <<LogRec("_create_object", IntegrityError),
                                    LogRec("_run_command", DatabaseError)>>])
           /\ UNCHANGED <<dirs, files>>

NextRace ==
    \/ Receive
    \/ Validate
    \/ Save
    \/ Refused
    \/ Aborted

SpecRace == Init /\ [][NextRace]_vars

\* the create commands and the driver's rename on one store
NextRename ==
    \/ Mkdir
    \/ Mkfile
    \/ Rename
    \/ Return

SpecRename == Init /\ [][NextRename]_vars

---------------------------------------------------------------------------
(* Properties.                                                             *)

\* a connector has run a request and has not yet returned
ConnectorRan == pc = "ran" /\ ~drv.called

\* the command names of the registry, as the specification lists them
Registered == {"open", "tree", "file", "parents", "mkdir", "mkfile"}

\* the request G carries every parameter its (registered) command requires
SatisfiesContract(G) ==
    /\ "cmd" \in DOMAIN G
    /\ G["cmd"] \in Registered
    /\ "target" \in DOMAIN G
    /\ G["cmd"] \in {"mkdir", "mkfile"} => "name" \in DOMAIN G

\* the failures raised while the handler ran, with the function that caught them
Failures == {log[i] : i \in {j \in 1..Len(log) : log[j].exc.type # ""}}

CreateError(e) ==
    IF e.type = "ValidationError" THEN Text(e.text)
    ELSE IF e.type = "IntegrityError" THEN Text("Could not create new object")
    ELSE Text("Invalid parent directory")

C2_SingleFieldError ==
    (ConnectorRan /\ "error" \in DOMAIN response) => DOMAIN response = {"error"}

\* a registered command that lacks one of its required parameters
LacksParameter(G) ==
    /\ "cmd" \in DOMAIN G
    /\ G["cmd"] \in Registered
    /\ \/ "target" \notin DOMAIN G
       \/ G["cmd"] \in {"mkdir", "mkfile"} /\ "name" \notin DOMAIN G

\* C3: a registered command that lacks a required parameter is answered with
\* exactly {error: "Invalid arguments"}, no handler is invoked and the store is
\* unchanged.
C3_InvalidArguments ==
    [][(pc = "idle" /\ pc' = "ran" /\ ~drv'.called /\ LacksParameter(GET')) =>
          /\ response' = [error |-> Text("Invalid arguments")]
          /\ called' = ""
          /\ dirs' = dirs
          /\ files' = files]_vars

\* C3 witness: mkdir with a target and no name was rejected
C3_Witness ==
    /\ ConnectorRan
    /\ GET = [cmd |-> "mkdir", target |-> V1 \o <<"_">>]
    /\ response = [error |-> Text("Invalid arguments")]
    /\ called = ""

\* C4: an unregistered command is answered with exactly {error: "Unknown
\* command"}, a request without cmd with exactly {error: "No command
\* specified"}; no handler runs and the store is unchanged.
C4_UnknownOrMissingCommand ==
    [][(pc = "idle" /\ pc' = "ran" /\ ~drv'.called) =>
          /\ ("cmd" \in DOMAIN GET' /\ GET'["cmd"] \notin Registered) =>
                /\ response' = [error |-> Text("Unknown command")]
                /\ called' = ""
                /\ dirs' = dirs
                /\ files' = files
          /\ "cmd" \notin DOMAIN GET' =>
                /\ response' = [error |-> Text("No command specified")]
                /\ called' = ""
                /\ dirs' = dirs
                /\ files' = files]_vars

\* C4 witness: an unregistered command that carries a target and a name was
\* answered with "Unknown command"
C4_Witness ==
    /\ ConnectorRan
    /\ GET = [cmd |-> "invalid_cmd_test", target |-> V1 \o <<"_">>, name |-> <<"a">>]
    /\ response = [error |-> Text("Unknown command")]

\* the message of a uniqueness failure of the create command cmd
UniquenessMessage(cmd) ==
    Text(IF cmd = "mkdir" THEN "Directory with this Name and Parent already exists."
         ELSE "File with this Name and Parent already exists.")

\* the name a node created with the name parameter x carries
Named(x) == [i \in 1..Len(x) |-> IF x[i] = "+" THEN " " ELSE x[i]]

\* target is the hash of directory p of the open volume
IsHashOf(target, p) ==
    /\ p \in 1..Len(dirs)
    /\ dirs[p].collection = OpenCollection
    /\ target = get_volume_id(OpenCollection) \o <<"_", "d">> \o Str(p)

\* a connector runs a create request that satisfies its contract
CreateStep ==
    /\ pc = "idle"
    /\ pc' = "ran"
    /\ ~drv'.called
    /\ SatisfiesContract(GET')
    /\ GET'["cmd"] \in {"mkdir", "mkfile"}

\* C5: once mkdir (mkfile) of name X under target P has succeeded, every later
\* mkdir (mkfile) of X under P is answered with the uniqueness message and
\* creates nothing; mkdir of X under another directory P' that has no child
\* directory named X succeeds.
C5_DuplicateRejected ==
    [][CreateStep =>
          /\ <<GET'["cmd"], GET'["target"], GET'["name"]>> \in succeeded =>
                /\ response' = [error |-> UniquenessMessage(GET'["cmd"])]
                /\ dirs' = dirs
                /\ files' = files
          /\ \A p \in 1..Len(dirs) :
                ( /\ GET'["cmd"] = "mkdir"
                  /\ \E t \in succeeded : t[1] = "mkdir" /\ t[3] = GET'["name"]
                  /\ IsHashOf(GET'["target"], p)
                  /\ ~\E i \in 1..Len(dirs) :
                        dirs[i].parent = p /\ dirs[i].name = Named(GET'["name"]) )
                => /\ "added" \in DOMAIN response'
                   /\ "error" \notin DOMAIN response'
                   /\ Len(dirs') = Len(dirs) + 1
                   /\ dirs'[Len(dirs')].parent = p
                   /\ dirs'[Len(dirs')].name = Named(GET'["name"])]_vars

\* C5 witness: a mkdir that had succeeded is repeated and rejected as a
\* duplicate, after the same name was also created under another directory
C5_Witness ==
    /\ ConnectorRan
    /\ SatisfiesContract(GET)
    /\ GET["cmd"] = "mkdir"
    /\ <<"mkdir", GET["target"], GET["name"]>> \in succeeded
    /\ response = [error |-> UniquenessMessage("mkdir")]
    /\ \E t \in succeeded : t[1] = "mkdir" /\ t[3] = GET["name"] /\ t[2] # GET["target"]
    /\ \E i, j \in 1..Len(dirs) :
          /\ dirs[i].name = Named(GET["name"])
          /\ dirs[j].name = Named(GET["name"])
          /\ dirs[i].parent # dirs[j].parent
          /\ dirs[i].collection = OpenCollection
          /\ dirs[j].collection = OpenCollection

\* the nodes of the store: kind and primary key
Nodes == ({"d"} \X (1..Len(dirs))) \cup ({"f"} \X (1..Len(files)))

RowOf(n) == IF n[1] = "d" THEN dirs[n[2]] ELSE files[n[2]]

\* C6: no two distinct nodes (directories or files) with the same parent have
\* the same name.
C6_UniqueAmongSiblings ==
    \A m, n \in Nodes :
        (m # n /\ RowOf(m).parent # 0 /\ RowOf(m).parent = RowOf(n).parent)
            => RowOf(m).name # RowOf(n).name

\* h has the form <volume_id>_<d|f><digits>
WellFormed(h) ==
    /\ Len(Split(h)) = 2
    /\ Len(Split(h)[2]) >= 2
    /\ Split(h)[2][1] \in {"d", "f"}
    /\ \A i \in 2..Len(Split(h)[2]) : IsDigit(Split(h)[2][i])

\* the node a well-formed h names: its kind and number
NodeOf(h) == <<Split(h)[2][1], DigitsVal(Tail(Split(h)[2]))>>

\* the well-formed h names a node of the store that belongs to the open volume
Owned(h) ==
    /\ NodeOf(h) \in Nodes
    /\ RowOf(NodeOf(h)).collection = OpenCollection

\* h has an empty node-id segment
EmptySegment(h) == h = <<>> \/ (Len(Split(h)) = 2 /\ Split(h)[2] = <<>>)

NotFound == Exc("InvalidTarget", "Could not open target", <<>>)

RootHash == get_volume_id(OpenCollection) \o <<"_", "d">>
            \o Str(collections[OpenCollection].root_node)

\* C8: an identifier with an empty node-id segment resolves to the root
\* directory of the open volume and never fails, in the connector and in the
\* driver.
C8_EmptySegmentIsRoot ==
    /\ (ConnectorRan /\ SatisfiesContract(GET) /\ EmptySegment(GET["target"])) =>
          /\ GET["cmd"] \in {"open", "tree", "parents", "file"} =>
                "error" \notin DOMAIN response
          /\ GET["cmd"] = "open" =>
                "cwd" \in DOMAIN response /\ response["cwd"].hash = RootHash
          /\ GET["cmd"] \in {"mkdir", "mkfile"} =>
                \/ response = [error |-> UniquenessMessage(GET["cmd"])]
                \/ /\ DOMAIN response = {"added"}
                   /\ response["added"][1].phash = RootHash
    /\ (pc = "ran" /\ drv.called /\ EmptySegment(drv.hash)) =>
          /\ drv.result.exc = NoExc
          /\ drv.result.obj = Obj("Directory", collections[OpenCollection].root_node)

\* C9: the hash reported for the node a well-formed identifier h resolves to is
\* h itself.
C9_RoundTrip ==
    /\ ( /\ ConnectorRan
         /\ SatisfiesContract(GET)
         /\ GET["cmd"] = "open"
         /\ WellFormed(GET["target"])
         /\ "cwd" \in DOMAIN response )
       => response["cwd"].hash = GET["target"]
    /\ (pc = "ran" /\ drv.called /\ WellFormed(drv.hash) /\ drv.result.exc = NoExc)
       => get_hash(dirs, files, drv.result.obj) = drv.hash

TargetDir(h) ==
    IF Len(Split(h)) = 2 /\ Split(h)[2] = <<>>
    THEN collections[OpenCollection].root_node
    ELSE IF WellFormed(h) /\ NodeOf(h)[1] = "d" THEN NodeOf(h)[2]
    ELSE 0

\* table T2 is table T1 with one row appended
OneMore(T1, T2) == Len(T2) = Len(T1) + 1 /\ SubSeq(T2, 1, Len(T1)) = T1

\* C11: a successful mkdir (mkfile) with target resolving to directory P and
\* name N adds exactly one Directory (File) whose parent is P, whose volume is
\* the open volume and whose name is N with every '+' replaced by a space;
\* `added` is the one-element list of that node's description, with phash the
\* hash of P; every row that existed is unchanged.
C11_CreateEffect ==
    [][(CreateStep /\ "added" \in DOMAIN response' /\ "error" \notin DOMAIN response')
       => LET P == TargetDir(GET'["target"])
              N == Named(GET'["name"])
          IN /\ P \in 1..Len(dirs)
             /\ DOMAIN response' = {"added"}
             /\ Len(response'["added"]) = 1
             /\ response'["added"][1].phash = DirHash(dirs[P], P)
             /\ response'["added"][1].name = N
             /\ GET'["cmd"] = "mkdir" =>
                   /\ OneMore(dirs, dirs')
                   /\ files' = files
                   /\ dirs'[Len(dirs')].parent = P
                   /\ dirs'[Len(dirs')].collection = OpenCollection
                   /\ dirs'[Len(dirs')].name = N
                   /\ response'["added"][1]
                         = DirInfo(dirs', dirs'[Len(dirs')], Len(dirs'))
             /\ GET'["cmd"] = "mkfile" =>
                   /\ OneMore(files, files')
                   /\ dirs' = dirs
                   /\ files'[Len(files')].parent = P
                   /\ files'[Len(files')].collection = OpenCollection
                   /\ files'[Len(files')].name = N
                   /\ response'["added"][1]
                         = FileInfo(dirs', files'[Len(files')], Len(files'))]_vars

\* C11 witness: mkfile of 'a+b' under a directory created before succeeded and
\* the new file is named 'a b'
C11_Witness ==
    /\ ConnectorRan
    /\ GET = [cmd |-> "mkfile", target |-> V1 \o <<"_", "d", "4">>,
              name |-> <<"a", "+", "b">>]
    /\ DOMAIN response = {"added"}
    /\ Len(files) = Len(InitFiles) + 1
    /\ files[Len(files)].name = <<"a", " ", "b">>
    /\ files[Len(files)].parent = 4
    /\ response["added"][1].phash = V1 \o <<"_", "d", "4">>

---------------------------------------------------------------------------
(* The flattened list as the specification defines it (section 4.3), over  *)
(* the Directory table D and the File table F.                             *)

\* the siblings of directory a: the other directories with a's parent; a root
\* has none
SiblingsOf(D, a) ==
    IF D[a].parent = 0 THEN <<>>
    ELSE SelectSeq(Ids(D), LAMBDA i : D[i].parent = D[a].parent /\ i # a)

\* the walk from n up to and including the root of its volume
RECURSIVE Walk(_, _)
Walk(D, n) == IF D[n].parent = 0 THEN <<n>> ELSE <<n>> \o Walk(D, D[n].parent)

Describe(D, ids) == [k \in 1..Len(ids) |-> DirInfo(D, D[ids[k]], ids[k])]

\* step 1: each directory of the walk w, followed by its siblings
RECURSIVE WalkPart(_, _)
WalkPart(D, w) ==
    IF w = <<>> THEN <<>>
    ELSE <<DirInfo(D, D[w[1]], w[1])>> \o Describe(D, SiblingsOf(D, w[1]))
         \o WalkPart(D, Tail(w))

ChildFiles(D, F, n) ==
    LET ids == SelectSeq(Ids(F), LAMBDA i : F[i].parent = n)
    IN [k \in 1..Len(ids) |-> FileInfo(D, F[ids[k]], ids[k])]

\* flatten(n, ancestors, siblings, children) for a directory n
Flatten(D, F, n, a, sib, ch) ==
    (IF a THEN WalkPart(D, Walk(D, n)) ELSE <<>>)
    \o (IF sib /\ D[n].parent # 0 THEN Describe(D, SiblingsOf(D, n)) ELSE <<>>)
    \o (IF ch
        THEN Describe(D, SelectSeq(Ids(D), LAMBDA i : D[i].parent = n))
             \o ChildFiles(D, F, n)
        ELSE <<>>)

\* a connector has answered the request of command cmd without an error
Answered(cmd) ==
    /\ ConnectorRan
    /\ SatisfiesContract(GET)
    /\ GET["cmd"] = cmd
    /\ "error" \notin DOMAIN response

\* C12: a successful open on directory n returns cwd = describe(n) and files =
\* flatten(n, ancestors, siblings, children) when tree is '1', files =
\* flatten(n, children only) otherwise, with no other element.
C12_OpenFiles ==
    Answered("open") =>
        LET n == TargetDir(GET["target"])
            full == "tree" \in DOMAIN GET /\ GET["tree"] = "1"
        IN /\ n \in 1..Len(dirs)
           /\ response["cwd"] = DirInfo(dirs, dirs[n], n)
           /\ response["files"] = Flatten(dirs, files, n, full, full, TRUE)

\* C13: the parents command on the root directory of the open volume returns
\* flatten(root, ancestors, siblings, no children) = the one-element list of the
\* root's description, whatever other volumes exist.
C13_RootAlone ==
    (Answered("parents")
     /\ TargetDir(GET["target"]) = collections[OpenCollection].root_node)
    => response["tree"]
          = <<DirInfo(dirs, dirs[collections[OpenCollection].root_node],
                      collections[OpenCollection].root_node)>>

\* h names a File of the open volume
NamesFile(h) == WellFormed(h) /\ NodeOf(h)[1] = "f" /\ Owned(h)

\* C14: a tree or open request whose target is a File of the open volume
\* succeeds with an empty list of children and no error in the envelope.
C14_FileHasNoChildren ==
    ( /\ ConnectorRan
      /\ SatisfiesContract(GET)
      /\ GET["cmd"] \in {"tree", "open"}
      /\ NamesFile(GET["target"]) )
    => /\ "error" \notin DOMAIN response
       /\ GET["cmd"] = "tree" => ("tree" \in DOMAIN response /\ response["tree"] = <<>>)
       /\ GET["cmd"] = "open" => ("files" \in DOMAIN response /\ response["files"] = <<>>)

\* C15: for every directory n and every combination of the flags, the list
\* Directory.get_tree returns is flatten(n, ancestors, siblings, children): the
\* walk from n up to the root, each directory followed by its siblings; then the
\* siblings of n unless n is a root; then the child directories and the child
\* files of n.
C15_TreeOrder ==
    tr.called =>
        tr.result = Flatten(dirs, files, tr.id, tr.ancestors, tr.siblings, tr.children)

\* C17: every node's name is a non-empty string, whatever mkdir and mkfile
\* requests have been served.
C17_NamesNonEmpty ==
    /\ \A i \in 1..Len(dirs) : dirs[i].name # <<>>
    /\ \A i \in 1..Len(files) : files[i].name # <<>>

\* the target h of a driver call resolves in the driver's volume
Resolvable(h) == h = <<>> \/ (WellFormed(h) /\ Owned(h))

\* the node a resolvable h names
Target(h) ==
    IF h = <<>> THEN <<"d", collections[OpenCollection].root_node>> ELSE NodeOf(h)

\* a sibling of node t (a node of either kind with t's parent) is named name
SiblingHas(t, name) ==
    /\ RowOf(t).parent # 0
    /\ \E m \in Nodes :
          m # t /\ RowOf(m).parent = RowOf(t).parent /\ RowOf(m).name = name

\* C18: rename(name, target) fails and changes no name when the target does
\* not resolve in the driver's volume, fails and changes no name when a sibling
\* of the target has the new name, and otherwise changes the name of the target
\* only and returns the updated description.
C18_Rename ==
    [][(pc = "idle" /\ pc' = "called" /\ rn'.called) =>
          LET h == rn'.target
              t == Target(h)
          IN /\ ~Resolvable(h) =>
                   (rn'.exc # NoExc /\ dirs' = dirs /\ files' = files)
             /\ (Resolvable(h) /\ SiblingHas(t, rn'.name)) =>
                   (rn'.exc # NoExc /\ dirs' = dirs /\ files' = files)
             /\ (Resolvable(h) /\ ~SiblingHas(t, rn'.name)) =>
                   /\ rn'.exc = NoExc
                   /\ dirs' = IF t[1] = "d" THEN [dirs EXCEPT ![t[2]].name = rn'.name]
                              ELSE dirs
                   /\ files' = IF t[1] = "f" THEN [files EXCEPT ![t[2]].name = rn'.name]
                               ELSE files
                   /\ rn'.result["added"]
                         = <<IF t[1] = "d" THEN DirInfo(dirs', dirs'[t[2]], t[2])
                             ELSE FileInfo(dirs', files'[t[2]], t[2])>>]_vars

\* the two concurrent requests are mkdir requests with the same name and the
\* same target, a directory of the open volume, and both have been answered
SameMkdir ==
    /\ \A p \in Procs : proc[p].pc = "done"
    /\ proc[1].G = proc[2].G
    /\ proc[1].G["cmd"] = "mkdir"
    /\ TargetDir(proc[1].G["target"]) \in 1..Len(InitDirs)
    /\ InitDirs[TargetDir(proc[1].G["target"])].collection = OpenCollection

\* process p answered with `added` and no error
Success(p) == "added" \in DOMAIN proc[p].resp /\ "error" \notin DOMAIN proc[p].resp

\* process p answered with an error and without `added`
ErrorOnly(p) == "error" \in DOMAIN proc[p].resp /\ "added" \notin DOMAIN proc[p].resp

\* C16: however the uniqueness checks and the saves of two concurrent mkdir
\* requests with the same name and target interleave, no two directories with
\* one parent have the same name, one request is answered with `added` and the
\* other with an error envelope without `added`.
C16_AtomicCreate ==
    /\ \A i, j \in 1..Len(dirs) :
          (i # j /\ dirs[i].parent # 0 /\ dirs[i].parent = dirs[j].parent)
             => dirs[i].name # dirs[j].name
    /\ SameMkdir =>
          \E p, q \in Procs : p # q /\ Success(p) /\ ErrorOnly(q)

====
